---- MODULE Spec2Model ----
(***************************************************************************)
(* A state-machine model of wdd (dd for Windows), release 0.2.0: main()    *)
(* and the routines it calls (cleanup, exit_on_error), with every Win32    *)
(* call as an environment step whose outcome is chosen                     *)
(* nondeterministically.  The program is single threaded; pc is the        *)
(* position of main().                                                     *)
(*                                                                         *)
(* Sizes.  size_t is 64 bits wide and DWORD 32 bits wide.  A size_t that   *)
(* comes from the command line (options.block_size) is kept as the pair    *)
(* [hi, lo] standing for hi * 2^32 + lo, so that the cast to DWORD is the  *)
(* projection on lo.  The byte counters are size_t and cannot wrap within  *)
(* the transfers modelled here; they are plain integers.                   *)
(*                                                                         *)
(* Time.  get_time_usec() is sampled once per loop iteration when progress *)
(* is shown; the clock moves by clock_step between two samples, and         *)
(* clock_step is an input of the run.                                      *)
(***************************************************************************)
EXTENDS Integers, Naturals, Sequences, FiniteSets, TLC

(***************************************************************************)
(* Program constants.                                                      *)
(***************************************************************************)
KB == 1024
MB == 1048576
GB == 1073741824
BUFFER_SIZE == 4096
UPDATE_INTERVAL == 1000000
EXIT_SUCCESS == 0
EXIT_FAILURE == 1

(***************************************************************************)
(* Bounds of the model.                                                    *)
(***************************************************************************)
\* largest count=N that is tried
MaxCount == 3
\* successful reads that return fewer bytes than were available
MaxShortReads == 1
\* successful writes that report fewer bytes than requested
MaxShortWrites == 1
\* the value of the clock at program start (microseconds, origin arbitrary)
ClockStart == 1
\* sizes tried around each threshold and across each range of format_size
MaxFormatSteps == 12

(***************************************************************************)
(* Inputs.                                                                 *)
(***************************************************************************)
\* bs=: 0 is "not given"; the last two are 2^32 and 2^32 + 512
BlockSizes ==
    {[hi |-> 0, lo |-> x] : x \in {0, 512, 4096, 8192}}
        \cup {[hi |-> 1, lo |-> 0], [hi |-> 1, lo |-> 512]}
\* count=: NoCount is the default (size_t)-1
NoCount == -1
Counts == {NoCount} \cup (0 .. MaxCount)
\* disk_geometry.Geometry.BytesPerSector of a destination device
SectorSizes == {512, 4096, 8192}
\* length of the source in bytes
SourceLens == {0, 2048, 10000}
\* byte counts given to format_size: around 0 and the three thresholds, and
\* spread over the KB, MB and GB ranges (the last below 2^31)
FormatSizes ==
    (0 .. MaxFormatSteps)
        \cup {t + d : t \in {KB, MB, GB},
                      d \in (0 - MaxFormatSteps) .. MaxFormatSteps}
        \cup {KB + 256 * i : i \in 1 .. MaxFormatSteps}
        \cup {MB + 52429 * i : i \in 1 .. MaxFormatSteps}
        \cup {GB + 53687091 * i : i \in 1 .. MaxFormatSteps}
\* microseconds between two samples of the clock, one value for a run
ClockSteps == {0, UPDATE_INTERVAL - 1, UPDATE_INTERVAL}
\* system error codes of a failed ReadFile
ReadErrors == {"ERROR_SECTOR_NOT_FOUND", "ERROR_CRC"}

Min(a, b) == IF a < b THEN a ELSE b

\* the calls recorded in sys.log
LogCalls == {"ReadFile", "WriteFile", "VirtualFree", "FSCTL_UNLOCK_VOLUME",
             "CloseHandle(in_file)", "CloseHandle(out_file)", "exit"}

VARIABLES
    options,            \* struct program_options: block_size, count, status
    src_remaining,      \* bytes of the source not yet delivered by ReadFile
    dest_sector_size,   \* 0: the destination is a regular file
    pc,                 \* position of main()
    in_file, out_file,  \* s.in_file, s.out_file
    buffer_size,        \* s.buffer_size
    buffer,             \* s.buffer
    out_file_is_device, \* s.out_file_is_device
    started_copying,    \* s.started_copying
    num_bytes_in, num_bytes_out, num_blocks_copied,
    num_block_bytes_in, \* local of the loop body
    last_time, last_bytes_copied, \* locals of main()
    clock,              \* what get_time_usec() returned last
    clock_step,         \* how far the clock moves between two samples
    short_reads, short_writes, \* counters that bound the model
    sys,                \* the requests made to the system so far
    out,                \* what the program has printed, and its exit status
    event               \* the outcome of the last system call of main()

optVars == <<options, dest_sector_size>>
stateVars == <<in_file, out_file, buffer_size, buffer, out_file_is_device,
               started_copying>>
countVars == <<num_bytes_in, num_bytes_out, num_blocks_copied>>
progVars == <<last_time, last_bytes_copied, clock, clock_step>>
vars == <<options, src_remaining, dest_sector_size, pc, in_file, out_file,
          buffer_size, buffer, out_file_is_device, started_copying,
          num_bytes_in, num_bytes_out, num_blocks_copied, num_block_bytes_in,
          last_time, last_bytes_copied, clock, clock_step, short_reads,
          short_writes, sys, out, event>>

(***************************************************************************)
(* size_t values given as [hi, lo].                                        *)
(***************************************************************************)
\* (DWORD)size
ToDWORD(size) == size.lo
\* size < d, for a DWORD d
SizeLessThan(size, d) == size.hi = 0 /\ size.lo < d
\* size > 0
SizePositive(size) == size.hi > 0 \/ size.lo > 0

(***************************************************************************)
(* Pure parts of main().                                                   *)
(***************************************************************************)
\* CountReached with > for >=
CountReachedLate(blocks, count) ==
    IF count = NoCount THEN FALSE ELSE blocks > count

\* options.count >= 0 && s.num_blocks_copied >= options.count, both size_t:
\* the first conjunct is always true, and no block counter reaches the
\* default (size_t)-1
CountReached(blocks, count) ==
    IF count = NoCount THEN FALSE ELSE blocks >= count

\* the buffer size for a device; cur is s.buffer_size, set to BUFFER_SIZE
DeviceBufferSize(block_size, cur, sector_size) ==
    IF SizeLessThan(block_size, sector_size)
    THEN sector_size
    ELSE (cur \div sector_size) * sector_size

\* the buffer size for a regular file
FileBufferSize(block_size, cur) ==
    IF SizePositive(block_size) THEN ToDWORD(block_size) ELSE cur

\* ReadStops without the test for ERROR_SECTOR_NOT_FOUND
ReadStopsOnZeroOnly(result, k, err) == k = 0

\* ReadStops without the test for zero bytes
ReadStopsOnBadSectorOnly(result, k, err) ==
    ~result /\ err = "ERROR_SECTOR_NOT_FOUND"

\* the first test after ReadFile: leave the loop
ReadStops(result, k, err) ==
    k = 0 \/ (~result /\ err = "ERROR_SECTOR_NOT_FOUND")

\* the second test after ReadFile: exit_on_error
ReadFails(result) == ~result

\* WriteFails with the result of WriteFile ignored
WriteFailsIgnored(result) == FALSE

\* the test after WriteFile: exit_on_error
WriteFails(result) == ~result

\* the test after FSCTL_DISMOUNT_VOLUME: exit_on_error
DismountFails(result) == ~result

\* LockFails with the result of FSCTL_LOCK_VOLUME ignored
LockFailsIgnored(result) == FALSE

\* the test after FSCTL_LOCK_VOLUME: exit_on_error
LockFails(result) == ~result

\* AllocFails with the result of VirtualAlloc ignored
AllocFailsIgnored(ok) == FALSE

\* the test after VirtualAlloc, s.buffer == NULL: exit_on_error
AllocFails(ok) == ~ok

\* AddBytesIn with = for +=
AddBytesInAssigned(total, k) == k

\* s.num_bytes_in += num_block_bytes_in
AddBytesIn(total, k) == total + k

\* WriteLength with the size of the buffer for the bytes just read
WriteLengthWholeBuffer(k, size) == size

\* the byte count given to WriteFile: num_block_bytes_in
WriteLength(k, size) == k

\* s.num_bytes_out = num_block_bytes_out
AddBytesOutAssigned(total, k) == k

\* s.num_bytes_out += num_block_bytes_out
AddBytesOut(total, k) == total + k

\* ProgressDue with > for >=
ProgressDueLate(current_time, last) == current_time - last > UPDATE_INTERVAL

\* current_time - last_time >= UPDATE_INTERVAL
ProgressDue(current_time, last) == current_time - last >= UPDATE_INTERVAL

\* the two guarded CloseHandle calls that end cleanup(), in their order
CloseCalls(inf, outf) ==
    (IF inf # "INVALID" THEN <<"CloseHandle(in_file)">> ELSE <<>>)
        \o (IF outf # "INVALID" THEN <<"CloseHandle(out_file)">> ELSE <<>>)

\* cleanup with both handles closed whether or not they were opened
cleanupUnguardedClose(sy, is_device, inf, outf) ==
    [sy EXCEPT
        !.log = @ \o <<"VirtualFree">>
                  \o (IF is_device THEN <<"FSCTL_UNLOCK_VOLUME">> ELSE <<>>)
                  \o <<"CloseHandle(in_file)", "CloseHandle(out_file)">>,
        !.cleanup_runs = @ + 1,
        !.virtualfree_calls = @ + 1,
        !.unlock_requests = IF is_device THEN @ + 1 ELSE @,
        !.unlocks_of_held_lock =
            IF is_device /\ sy.lock_held THEN @ + 1 ELSE @,
        !.lock_held = IF is_device THEN FALSE ELSE @,
        !.in_closes = @ + 1,
        !.out_closes = @ + 1]

\* cleanup without the FSCTL_UNLOCK_VOLUME request
cleanupWithoutUnlock(sy, is_device, inf, outf) ==
    [sy EXCEPT
        !.log = @ \o <<"VirtualFree">> \o CloseCalls(inf, outf),
        !.cleanup_runs = @ + 1,
        !.virtualfree_calls = @ + 1,
        !.in_closes = IF inf # "INVALID" THEN @ + 1 ELSE @,
        !.out_closes = IF outf # "INVALID" THEN @ + 1 ELSE @]

\* cleanup with the FSCTL_UNLOCK_VOLUME request made after the handles are
\* closed
cleanupUnlockAfterClose(sy, is_device, inf, outf) ==
    [sy EXCEPT
        !.log = @ \o <<"VirtualFree">> \o CloseCalls(inf, outf)
                  \o (IF is_device THEN <<"FSCTL_UNLOCK_VOLUME">> ELSE <<>>),
        !.cleanup_runs = @ + 1,
        !.virtualfree_calls = @ + 1,
        !.unlock_requests = IF is_device THEN @ + 1 ELSE @,
        !.unlocks_of_held_lock =
            IF is_device /\ sy.lock_held THEN @ + 1 ELSE @,
        !.lock_held = IF is_device THEN FALSE ELSE @,
        !.in_closes = IF inf # "INVALID" THEN @ + 1 ELSE @,
        !.out_closes = IF outf # "INVALID" THEN @ + 1 ELSE @]

(***************************************************************************)
(* cleanup(): the requests it makes, added to the record sy, and their     *)
(* names added to sy.log in the order the function makes them.             *)
(***************************************************************************)
cleanup(sy, is_device, inf, outf) ==
    [sy EXCEPT
        !.log = @ \o <<"VirtualFree">>
                  \o (IF is_device THEN <<"FSCTL_UNLOCK_VOLUME">> ELSE <<>>)
                  \o CloseCalls(inf, outf),
        !.cleanup_runs = @ + 1,
        !.virtualfree_calls = @ + 1,
        !.unlock_requests = IF is_device THEN @ + 1 ELSE @,
        !.unlocks_of_held_lock =
            IF is_device /\ sy.lock_held THEN @ + 1 ELSE @,
        !.lock_held = IF is_device THEN FALSE ELSE @,
        !.in_closes = IF inf # "INVALID" THEN @ + 1 ELSE @,
        !.out_closes = IF outf # "INVALID" THEN @ + 1 ELSE @]

\* VirtualFree(s->buffer, 0, MEM_RELEASE)
FreeBuffer(b) == IF b = "ALLOCATED" THEN "FREED" ELSE b

(***************************************************************************)
(* format_size().  The string is kept as [value, decimals, unit]: "%zu     *)
(* bytes" is the integer itself, "%0.1f KB" the number of tenths.          *)
(* (double)size / (double)div is exact for the sizes modelled, div being a *)
(* power of two, and "%0.1f" prints the tenth nearest to it, the even one  *)
(* of two that are equally near.  The arithmetic is done on size / 1024    *)
(* for div = GB so that no intermediate value exceeds 2^31.                *)
(***************************************************************************)
Tenths(size, div) ==
    LET sc == IF div > MB THEN KB ELSE 1
        d2 == div \div sc
        rem == size % div
        \* 20 * rem / sc, rounded down, and whether that was exact
        x == (rem \div sc) * 20 + ((rem % sc) * 20) \div sc
        exact == ((rem % sc) * 20) % sc = 0
        up == (x + d2) \div (2 * d2)
        tie == exact /\ (x + d2) % (2 * d2) = 0
    IN  (size \div div) * 10
            + (IF tie /\ up % 2 = 1 THEN up - 1 ELSE up)

\* format_size with > for >= in the three tests
format_sizeStrictTests(size) ==
    IF size > GB THEN [value |-> Tenths(size, GB), decimals |-> 1,
                       unit |-> "GB"]
    ELSE IF size > MB THEN [value |-> Tenths(size, MB), decimals |-> 1,
                            unit |-> "MB"]
    ELSE IF size > KB THEN [value |-> Tenths(size, KB), decimals |-> 1,
                            unit |-> "KB"]
    ELSE [value |-> size, decimals |-> 0, unit |-> "bytes"]

format_size(size) ==
    IF size >= GB THEN [value |-> Tenths(size, GB), decimals |-> 1,
                        unit |-> "GB"]
    ELSE IF size >= MB THEN [value |-> Tenths(size, MB), decimals |-> 1,
                             unit |-> "MB"]
    ELSE IF size >= KB THEN [value |-> Tenths(size, KB), decimals |-> 1,
                             unit |-> "KB"]
    ELSE [value |-> size, decimals |-> 0, unit |-> "bytes"]

\* print_status(s->num_bytes_out, s->start_time): the line printed by
\* print_progress, with its byte count and format_size of it
print_status(o, bytes) ==
    [o EXCEPT !.status_lines = @ + 1, !.status_bytes = bytes,
              !.bytes_str = format_size(bytes)]

\* exit_on_error with the final status printed whether or not copying had
\* started
exit_on_errorAlwaysStatus(sy) ==
    /\ out' = [print_status(out, num_bytes_out)
                 EXCEPT !.error_msgs = @ + 1, !.exit_code = EXIT_FAILURE]
    /\ sys' = [cleanup(sy, out_file_is_device, in_file, out_file)
                 EXCEPT !.log = Append(@, "exit")]
    /\ buffer' = FreeBuffer(buffer)
    /\ pc' = "exited"

(***************************************************************************)
(* exit_on_error(): message, final status when copying had started,        *)
(* cleanup, exit(EXIT_FAILURE).  sy is sys after the call that failed.     *)
(***************************************************************************)
exit_on_error(sy) ==
    /\ out' = [(IF started_copying THEN print_status(out, num_bytes_out)
                                   ELSE out)
                 EXCEPT !.error_msgs = @ + 1, !.exit_code = EXIT_FAILURE]
    /\ sys' = [cleanup(sy, out_file_is_device, in_file, out_file)
                 EXCEPT !.log = Append(@, "exit")]
    /\ buffer' = FreeBuffer(buffer)
    /\ pc' = "exited"

Init ==
    /\ options \in [block_size : BlockSizes, count : Counts,
                    status_progress : BOOLEAN]
    /\ src_remaining \in SourceLens
    /\ dest_sector_size \in {0} \cup SectorSizes
    /\ pc = "open_in"
    /\ in_file = "INVALID"
    /\ out_file = "INVALID"
    /\ buffer_size = 0
    /\ buffer = "NULL"
    /\ out_file_is_device = FALSE
    /\ started_copying = FALSE
    /\ num_bytes_in = 0
    /\ num_bytes_out = 0
    /\ num_blocks_copied = 0
    /\ num_block_bytes_in = 0
    /\ last_time = 0
    /\ last_bytes_copied = 0
    /\ clock = ClockStart
    /\ clock_step \in (IF options.status_progress THEN ClockSteps ELSE {0})
    /\ short_reads = 0
    /\ short_writes = 0
    /\ sys = [reads |-> 0, writes |-> 0, dismounted |-> FALSE,
              lock_acquired |-> FALSE, lock_held |-> FALSE,
              unlock_requests |-> 0, unlocks_of_held_lock |-> 0,
              virtualfree_calls |-> 0, cleanup_runs |-> 0,
              in_closes |-> 0, out_closes |-> 0, write_len |-> 0,
              writes_ok |-> 0, log |-> <<>>]
    /\ out = [error_msgs |-> 0, status_lines |-> 0, status_bytes |-> -1,
              progress_lines |-> 0, progress_delta |-> -1, exit_code |-> -1,
              bytes_str |-> [value |-> 0, decimals |-> 0, unit |-> "none"]]
    /\ event = [op |-> "none", ok |-> TRUE, k |-> 0, err |-> "none"]

Ev(op, ok, k, err) == [op |-> op, ok |-> ok, k |-> k, err |-> err]

(***************************************************************************)
(* main(), one action per system call or loop step.                        *)
(***************************************************************************)
\* CreateFileA(options.filename_in, GENERIC_READ, ...)
OpenInFile ==
    /\ pc = "open_in"
    /\ \E ok \in BOOLEAN :
        /\ event' = Ev("open_in", ok, 0, "none")
        /\ IF ok
           THEN /\ in_file' = "OPEN"
                /\ pc' = "open_out"
                /\ UNCHANGED <<buffer, sys, out>>
           ELSE /\ exit_on_error(sys)
                /\ UNCHANGED in_file
    /\ UNCHANGED <<options, src_remaining, dest_sector_size, out_file,
                   buffer_size, out_file_is_device, started_copying,
                   countVars, num_block_bytes_in, progVars, short_reads,
                   short_writes>>

\* CreateFileA(options.filename_out, ...) with OPEN_EXISTING, then with
\* CREATE_ALWAYS; ok says whether one of the two succeeded
OpenOutFile ==
    /\ pc = "open_out"
    /\ \E ok \in BOOLEAN :
        /\ event' = Ev("open_out", ok, 0, "none")
        /\ IF ok
           THEN /\ out_file' = "OPEN"
                /\ pc' = "geometry"
                /\ UNCHANGED <<buffer, sys, out>>
           ELSE /\ exit_on_error(sys)
                /\ UNCHANGED out_file
    /\ UNCHANGED <<options, src_remaining, dest_sector_size, in_file,
                   buffer_size, out_file_is_device, started_copying,
                   countVars, num_block_bytes_in, progVars, short_reads,
                   short_writes>>

\* s.buffer_size = BUFFER_SIZE;
\* s.out_file_is_device = DeviceIoControl(IOCTL_DISK_GET_DRIVE_GEOMETRY)
GetDriveGeometry ==
    /\ pc = "geometry"
    /\ buffer_size' = BUFFER_SIZE
    /\ out_file_is_device' = (dest_sector_size # 0)
    /\ event' = Ev("geometry", dest_sector_size # 0, 0, "none")
    /\ pc' = IF out_file_is_device' THEN "dismount" ELSE "size"
    /\ UNCHANGED <<options, src_remaining, dest_sector_size, in_file,
                   out_file, buffer, started_copying, countVars,
                   num_block_bytes_in, progVars, short_reads, short_writes,
                   sys, out>>

\* DeviceIoControl(s.out_file, FSCTL_DISMOUNT_VOLUME, ...)
DismountVolume ==
    /\ pc = "dismount"
    /\ \E result \in BOOLEAN :
        /\ event' = Ev("dismount", result, 0, "none")
        /\ IF DismountFails(result)
           THEN exit_on_error([sys EXCEPT !.dismounted = result])
           ELSE /\ sys' = [sys EXCEPT !.dismounted = result]
                /\ pc' = "lock"
                /\ UNCHANGED <<buffer, out>>
    /\ UNCHANGED <<options, src_remaining, dest_sector_size, in_file,
                   out_file, buffer_size, out_file_is_device,
                   started_copying, countVars, num_block_bytes_in, progVars,
                   short_reads, short_writes>>

\* DeviceIoControl(s.out_file, FSCTL_LOCK_VOLUME, ...)
LockVolume ==
    /\ pc = "lock"
    /\ \E result \in BOOLEAN :
        LET sy == [sys EXCEPT !.lock_acquired = result,
                              !.lock_held = result]
        IN  /\ event' = Ev("lock", result, 0, "none")
            /\ IF LockFails(result)
               THEN exit_on_error(sy)
               ELSE /\ sys' = sy
                    /\ pc' = "size"
                    /\ UNCHANGED <<buffer, out>>
    /\ UNCHANGED <<options, src_remaining, dest_sector_size, in_file,
                   out_file, buffer_size, out_file_is_device,
                   started_copying, countVars, num_block_bytes_in, progVars,
                   short_reads, short_writes>>

\* the derivation of s.buffer_size from sector_size and options.block_size
DeriveBufferSize ==
    /\ pc = "size"
    /\ buffer_size' =
        IF out_file_is_device
        THEN DeviceBufferSize(options.block_size, buffer_size,
                              dest_sector_size)
        ELSE FileBufferSize(options.block_size, buffer_size)
    /\ pc' = "alloc"
    /\ UNCHANGED <<options, src_remaining, dest_sector_size, in_file,
                   out_file, buffer, out_file_is_device, started_copying,
                   countVars, num_block_bytes_in, progVars, short_reads,
                   short_writes, sys, out, event>>

\* VirtualAlloc(NULL, s.buffer_size, ...): fails for a size of 0, and may
\* fail for any other size; then s.started_copying = TRUE
AllocBuffer ==
    /\ pc = "alloc"
    /\ \E ok \in BOOLEAN :
        /\ buffer_size = 0 => ~ok
        /\ event' = Ev("alloc", ok, 0, "none")
        /\ IF AllocFails(ok)
           THEN /\ exit_on_error(sys)
                /\ UNCHANGED started_copying
           ELSE /\ buffer' = IF ok THEN "ALLOCATED" ELSE "NULL"
                /\ started_copying' = TRUE
                /\ pc' = "loop"
                /\ UNCHANGED <<sys, out>>
    /\ UNCHANGED <<options, src_remaining, dest_sector_size, in_file,
                   out_file, buffer_size, out_file_is_device, countVars,
                   num_block_bytes_in, progVars, short_reads, short_writes>>

\* the top of for (;;): the test of the block count, then the progress step
\* with its call of get_time_usec()
LoopTop ==
    /\ pc = "loop"
    /\ IF CountReached(num_blocks_copied, options.count)
       THEN /\ pc' = "finish"
            /\ UNCHANGED <<progVars, out>>
       ELSE /\ pc' = "read"
            /\ IF options.status_progress
               THEN LET current_time == clock + clock_step IN
                    /\ clock' = current_time
                    /\ UNCHANGED clock_step
                    /\ IF last_time = 0
                       THEN /\ last_time' = current_time
                            /\ UNCHANGED <<last_bytes_copied, out>>
                       ELSE IF ProgressDue(current_time, last_time)
                       THEN /\ out' = [out EXCEPT
                                 !.progress_lines = @ + 1,
                                 !.progress_delta =
                                     num_bytes_out - last_bytes_copied,
                                 !.bytes_str = format_size(num_bytes_out)]
                            /\ last_time' = current_time
                            /\ last_bytes_copied' = num_bytes_out
                       ELSE UNCHANGED <<last_time, last_bytes_copied, out>>
               ELSE UNCHANGED <<progVars, out>>
    /\ UNCHANGED <<options, src_remaining, dest_sector_size, stateVars,
                   countVars, num_block_bytes_in, short_reads, short_writes,
                   sys, event>>

\* what ReadFile(s.in_file, s.buffer, s.buffer_size, &n, NULL) can give when
\* avail bytes can be delivered: all of them, fewer, or a failure
ReadOutcomes(avail, may_be_short) ==
    {Ev("read", TRUE, avail, "none")}
        \cup {Ev("read", TRUE, 1, "none") : x \in
                  {y \in {1} : avail >= 2 /\ may_be_short}}
        \cup {Ev("read", FALSE, k, e) : k \in {0, Min(1, avail)},
                                         e \in ReadErrors}

\* ReadBlock with s.num_bytes_in += n done before the two tests
ReadBlockCountsBeforeTests ==
    /\ pc = "read"
    /\ \E r \in ReadOutcomes(Min(buffer_size, src_remaining),
                             short_reads < MaxShortReads) :
        LET sy == [sys EXCEPT !.reads = @ + 1,
                              !.log = Append(@, "ReadFile")]
            short == r.ok /\ r.k < Min(buffer_size, src_remaining)
        IN  /\ event' = r
            /\ num_block_bytes_in' = r.k
            /\ num_bytes_in' = AddBytesIn(num_bytes_in, r.k)
            /\ src_remaining' = IF r.ok THEN src_remaining - r.k
                                        ELSE src_remaining
            /\ short_reads' = IF short THEN short_reads + 1 ELSE short_reads
            /\ IF ReadStops(r.ok, r.k, r.err)
               THEN /\ pc' = "finish"
                    /\ sys' = sy
                    /\ UNCHANGED <<buffer, out>>
               ELSE IF ReadFails(r.ok)
               THEN exit_on_error(sy)
               ELSE /\ pc' = "write"
                    /\ sys' = sy
                    /\ UNCHANGED <<buffer, out>>
    /\ UNCHANGED <<options, dest_sector_size, in_file, out_file, buffer_size,
                   out_file_is_device, started_copying, num_bytes_out,
                   num_blocks_copied, progVars, short_writes>>

\* ReadFile and the two tests that follow it; s.num_bytes_in += n
ReadBlock ==
    /\ pc = "read"
    /\ \E r \in ReadOutcomes(Min(buffer_size, src_remaining),
                             short_reads < MaxShortReads) :
        LET sy == [sys EXCEPT !.reads = @ + 1,
                              !.log = Append(@, "ReadFile")]
            short == r.ok /\ r.k < Min(buffer_size, src_remaining)
        IN  /\ event' = r
            /\ num_block_bytes_in' = r.k
            /\ src_remaining' = IF r.ok THEN src_remaining - r.k
                                        ELSE src_remaining
            /\ short_reads' = IF short THEN short_reads + 1 ELSE short_reads
            /\ IF ReadStops(r.ok, r.k, r.err)
               THEN /\ pc' = "finish"
                    /\ sys' = sy
                    /\ UNCHANGED <<buffer, out, num_bytes_in>>
               ELSE IF ReadFails(r.ok)
               THEN /\ exit_on_error(sy)
                    /\ UNCHANGED num_bytes_in
               ELSE /\ num_bytes_in' = AddBytesIn(num_bytes_in, r.k)
                    /\ pc' = "write"
                    /\ sys' = sy
                    /\ UNCHANGED <<buffer, out>>
    /\ UNCHANGED <<options, dest_sector_size, in_file, out_file, buffer_size,
                   out_file_is_device, started_copying, num_bytes_out,
                   num_blocks_copied, progVars, short_writes>>

\* what WriteFile(s.out_file, s.buffer, n, &m, NULL) can give: all n bytes
\* written, fewer, or a failure
WriteOutcomes(n, may_be_short) ==
    {Ev("write", TRUE, n, "none")}
        \cup {Ev("write", TRUE, n - 1, "none") : x \in
                  {y \in {1} : n >= 1 /\ may_be_short}}
        \cup {Ev("write", FALSE, 0, "ERROR_WRITE_FAULT")}

\* WriteFile and the test that follows it; s.num_bytes_out += m;
\* s.num_blocks_copied++
WriteBlock ==
    /\ pc = "write"
    /\ \E w \in WriteOutcomes(WriteLength(num_block_bytes_in, buffer_size),
                              short_writes < MaxShortWrites) :
        LET len == WriteLength(num_block_bytes_in, buffer_size)
            sy == [sys EXCEPT !.writes = @ + 1, !.write_len = len,
                              !.writes_ok = IF w.ok THEN @ + 1 ELSE @,
                              !.log = Append(@, "WriteFile")]
        IN  /\ event' = w
            /\ short_writes' = IF w.ok /\ w.k < len
                               THEN short_writes + 1 ELSE short_writes
            /\ IF WriteFails(w.ok)
               THEN /\ exit_on_error(sy)
                    /\ UNCHANGED <<num_bytes_out, num_blocks_copied>>
               ELSE /\ num_bytes_out' = AddBytesOut(num_bytes_out, w.k)
                    /\ num_blocks_copied' = num_blocks_copied + 1
                    /\ pc' = "loop"
                    /\ sys' = sy
                    /\ UNCHANGED <<buffer, out>>
    /\ UNCHANGED <<options, src_remaining, dest_sector_size, in_file,
                   out_file, buffer_size, out_file_is_device,
                   started_copying, num_bytes_in, num_block_bytes_in,
                   progVars, short_reads>>

\* after the loop: cleanup(&s); clear_output(); print_status(...);
\* return EXIT_SUCCESS
Finish ==
    /\ pc = "finish"
    /\ sys' = [cleanup(sys, out_file_is_device, in_file, out_file)
                 EXCEPT !.log = Append(@, "exit")]
    /\ buffer' = FreeBuffer(buffer)
    /\ out' = [print_status(out, num_bytes_out)
                 EXCEPT !.exit_code = EXIT_SUCCESS]
    /\ pc' = "exited"
    /\ UNCHANGED <<options, src_remaining, dest_sector_size, in_file,
                   out_file, buffer_size, out_file_is_device,
                   started_copying, countVars, num_block_bytes_in, progVars,
                   short_reads, short_writes, event>>

Next ==
    \/ OpenInFile
    \/ OpenOutFile
    \/ GetDriveGeometry
    \/ DismountVolume
    \/ LockVolume
    \/ DeriveBufferSize
    \/ AllocBuffer
    \/ LoopTop
    \/ ReadBlock
    \/ WriteBlock
    \/ Finish

Spec == Init /\ [][Next]_vars

\* the program is sequential: every step it can take, it takes
FairSpec == Spec /\ WF_vars(Next)

(***************************************************************************)
(* format_size on large byte counts: the program at the end of a copy of   *)
(* n bytes, n in FormatSizes, from a source of n bytes to a regular file   *)
(* with the default block size, about to print the final status.           *)
(***************************************************************************)
FormatInit ==
    /\ options = [block_size |-> [hi |-> 0, lo |-> 0], count |-> NoCount,
                  status_progress |-> FALSE]
    /\ num_bytes_out \in FormatSizes
    /\ num_bytes_in = num_bytes_out
    /\ num_blocks_copied = (num_bytes_out + BUFFER_SIZE - 1) \div BUFFER_SIZE
    /\ src_remaining = 0
    /\ dest_sector_size = 0
    /\ pc = "finish"
    /\ in_file = "OPEN"
    /\ out_file = "OPEN"
    /\ buffer_size = BUFFER_SIZE
    /\ buffer = "ALLOCATED"
    /\ out_file_is_device = FALSE
    /\ started_copying = TRUE
    /\ num_block_bytes_in = 0
    /\ last_time = 0
    /\ last_bytes_copied = 0
    /\ clock = ClockStart
    /\ clock_step = 0
    /\ short_reads = 0
    /\ short_writes = 0
    /\ sys = [reads |-> num_blocks_copied + 1, writes |-> num_blocks_copied,
              dismounted |-> FALSE, lock_acquired |-> FALSE,
              lock_held |-> FALSE, unlock_requests |-> 0,
              unlocks_of_held_lock |-> 0, virtualfree_calls |-> 0,
              cleanup_runs |-> 0, in_closes |-> 0, out_closes |-> 0,
              write_len |-> BUFFER_SIZE, writes_ok |-> num_blocks_copied,
              log |-> [i \in 1 .. 2 * num_blocks_copied + 1 |->
                          IF i % 2 = 1 THEN "ReadFile" ELSE "WriteFile"]]
    /\ out = [error_msgs |-> 0, status_lines |-> 0, status_bytes |-> -1,
              progress_lines |-> 0, progress_delta |-> -1, exit_code |-> -1,
              bytes_str |-> [value |-> 0, decimals |-> 0, unit |-> "none"]]
    /\ event = Ev("read", TRUE, 0, "none")

FormatNext == Finish

FormatSpec == FormatInit /\ [][FormatNext]_vars

TypeOK ==
    /\ pc \in {"open_in", "open_out", "geometry", "dismount", "lock", "size",
               "alloc", "loop", "read", "write", "finish", "exited"}
    /\ buffer_size \in Nat
    /\ num_bytes_in \in Nat /\ num_bytes_out \in Nat
    /\ num_blocks_copied \in Nat
    /\ sys.writes_ok \in Nat
    /\ sys.log \in Seq(LogCalls)

(***************************************************************************)
(* Properties.                                                             *)
(***************************************************************************)
Exited == pc = "exited"
ReadEvent == event.op = "read"
WriteEvent == event.op = "write"
BadSectorRead ==
    ReadEvent /\ ~event.ok /\ event.err = "ERROR_SECTOR_NOT_FOUND"
OtherFailedRead ==
    ReadEvent /\ ~event.ok /\ event.err # "ERROR_SECTOR_NOT_FOUND"
ZeroRead == ReadEvent /\ event.ok /\ event.k = 0
FailedWrite == WriteEvent /\ ~event.ok
NormalExit ==
    /\ out.exit_code = EXIT_SUCCESS
    /\ out.error_msgs = 0
    /\ sys.cleanup_runs = 1
    /\ out.status_lines = 1
FailureExit ==
    /\ out.exit_code = EXIT_FAILURE
    /\ out.error_msgs = 1
    /\ sys.cleanup_runs = 1

\* C1: with count=N the loop issues at most N reads and at most N writes
\* and num_blocks_copied never exceeds N, whatever the reads and writes
\* give and however much of the source remains; with count=0 there is no
\* read and no write.
C1_CountBoundsReadsAndWrites ==
    options.count # NoCount =>
        /\ sys.reads <= options.count
        /\ sys.writes <= options.count
        /\ num_blocks_copied <= options.count

\* the limit 2 stops a copy of a source that still has data
C1_Witness ==
    /\ Exited
    /\ options.count = 2
    /\ sys.reads = 2 /\ sys.writes = 2 /\ num_blocks_copied = 2
    /\ src_remaining > 0
    /\ event.op = "write" /\ event.ok

\* C2: in every state, at every point of the loop and at exit,
\* num_bytes_out <= num_bytes_in (a write reports at most the bytes
\* requested).
C2_BytesOutAtMostBytesIn == num_bytes_out <= num_bytes_in

\* a run with two blocks written, one of them short
C2_Witness ==
    /\ Exited
    /\ num_blocks_copied >= 2
    /\ num_bytes_out > 0
    /\ num_bytes_out < num_bytes_in

\* C3: on every exit taken after the lock was acquired exactly one unlock
\* request has been made, and it released the lock; for a regular file no
\* unlock request is ever made; a lock is released at exit if and only if
\* it was acquired.
C3_UnlockOncePerAcquiredLock ==
    /\ dest_sector_size = 0 => sys.unlock_requests = 0
    /\ ~Exited => sys.unlock_requests = 0
    /\ Exited =>
        /\ sys.lock_acquired =>
            sys.unlock_requests = 1 /\ ~sys.lock_held
        /\ sys.unlocks_of_held_lock = 1 <=> sys.lock_acquired
        /\ sys.unlocks_of_held_lock <= 1

\* a write error on a locked device, followed by the unlock
C3_Witness ==
    /\ Exited
    /\ sys.lock_acquired
    /\ FailedWrite
    /\ sys.unlock_requests = 1
    /\ sys.unlocks_of_held_lock = 1

\* C4: out_file_is_device is true only after the lock request succeeded;
\* on the exits taken when the dismount or the lock request fails the flag
\* is false and no unlock request is made.
C4_FlagOnlyAfterLock ==
    /\ out_file_is_device => sys.lock_acquired
    /\ (Exited /\ event.op \in {"dismount", "lock"} /\ ~event.ok) =>
        ~out_file_is_device /\ sys.unlock_requests = 0

\* C5: for a destination device with sector size S the derived buffer size
\* is a positive multiple of S and at least S, for every requested block
\* size and every S.
C5_DeviceBufferIsSectorMultiple ==
    (out_file_is_device /\ pc = "alloc") =>
        /\ buffer_size > 0
        /\ buffer_size % dest_sector_size = 0
        /\ buffer_size >= dest_sector_size

\* C6: a read that fails with anything but "sector not found" ends the
\* program through the failure exit, whatever byte count it reports, and
\* never through the normal path.
C6_OtherReadFailureIsFatal ==
    (Exited /\ OtherFailedRead) => FailureExit

\* C7: a read that fails with "sector not found" leaves the loop through
\* the normal path: no error message, cleanup and the final status run, and
\* the exit code is 0.
C7_BadSectorEndsNormally ==
    BadSectorRead =>
        /\ pc \in {"finish", "exited"}
        /\ Exited => NormalExit

\* a bad sector that reports bytes, after a block was copied
C7_Witness ==
    /\ Exited
    /\ BadSectorRead
    /\ event.k > 0
    /\ num_blocks_copied > 0

\* C8: a successful read of zero bytes ends the loop normally with exit
\* code 0; no write is attempted in that iteration and the three counters
\* are as they were before it.
C8_ZeroReadEndsNormally ==
    /\ [](ZeroRead => /\ pc \in {"finish", "exited"}
                      /\ Exited => NormalExit)
    /\ [][(pc = "read" /\ ZeroRead') =>
            /\ pc' = "finish"
            /\ UNCHANGED countVars
            /\ sys'.writes = sys.writes]_vars
    /\ [][pc = "finish" =>
            /\ pc' = "exited"
            /\ UNCHANGED countVars
            /\ sys'.writes = sys.writes
            /\ sys'.reads = sys.reads]_vars

\* the source ends after some blocks were copied
C8_Witness ==
    /\ Exited
    /\ ZeroRead
    /\ num_blocks_copied > 0
    /\ out.exit_code = EXIT_SUCCESS

\* C9: a failed write is fatal at once: no read or write follows it,
\* num_bytes_out and num_blocks_copied are not increased for the block,
\* cleanup runs and the exit status is not zero.
C9_WriteFailureIsFatal ==
    /\ [](FailedWrite => Exited /\ FailureExit /\ out.exit_code # 0)
    /\ [][(pc = "write" /\ FailedWrite') =>
            /\ pc' = "exited"
            /\ num_bytes_out' = num_bytes_out
            /\ num_blocks_copied' = num_blocks_copied]_vars
    /\ [][Exited => UNCHANGED vars]_vars

\* a write fails after a block was written
C9_Witness ==
    /\ Exited
    /\ FailedWrite
    /\ num_blocks_copied > 0
    /\ sys.writes = num_blocks_copied + 1

\* C10: no write (and no read) goes to a destination device unless the
\* dismount request and then the lock request have succeeded; when either
\* fails copying never starts and the exit status is not zero.
C10_DeviceWriteNeedsDismountAndLock ==
    /\ sys.lock_acquired => sys.dismounted
    /\ (out_file_is_device /\ (sys.writes > 0 \/ started_copying)) =>
        sys.dismounted /\ sys.lock_acquired
    /\ (event.op \in {"dismount", "lock"} /\ ~event.ok) =>
        /\ Exited
        /\ sys.reads = 0 /\ sys.writes = 0
        /\ ~started_copying
        /\ out.exit_code = EXIT_FAILURE

\* a block is written to a device that was dismounted and locked
C10_Witness ==
    /\ out_file_is_device
    /\ sys.writes > 0
    /\ sys.dismounted /\ sys.lock_acquired

\* C11: on every exit (failed open of the source or of the destination,
\* failed dismount, lock or allocation, failed read or write, limit
\* reached, source exhausted, bad sector) cleanup has run exactly once, and
\* not before: the buffer is released by exactly one VirtualFree and is not
\* left allocated, each handle is closed at most once, and a handle is
\* closed only if it was opened.
C11_TeardownRunsOnce ==
    /\ ~Exited =>
        /\ sys.cleanup_runs = 0 /\ sys.virtualfree_calls = 0
        /\ sys.in_closes = 0 /\ sys.out_closes = 0
    /\ Exited =>
        /\ sys.cleanup_runs = 1
        /\ sys.virtualfree_calls = 1
        /\ buffer # "ALLOCATED"
        /\ sys.in_closes <= 1 /\ sys.out_closes <= 1
        /\ sys.in_closes = 1 <=> in_file = "OPEN"
        /\ sys.out_closes = 1 <=> out_file = "OPEN"

\* the destination cannot be opened: the source handle alone is closed
C11_Witness ==
    /\ Exited
    /\ event.op = "open_out" /\ ~event.ok
    /\ sys.cleanup_runs = 1
    /\ sys.in_closes = 1 /\ sys.out_closes = 0

\* C12: the final status line is printed exactly once on every exit taken
\* after copying started, with num_bytes_out as its byte count, and is
\* never printed on an exit taken before copying started, nor before exit.
C12_FinalStatusOnceIffStarted ==
    /\ ~Exited => out.status_lines = 0
    /\ (Exited /\ started_copying) =>
        out.status_lines = 1 /\ out.status_bytes = num_bytes_out
    /\ (Exited /\ ~started_copying) => out.status_lines = 0

\* a write error after one block: the status line reports that block
C12_Witness ==
    /\ Exited
    /\ FailedWrite
    /\ num_bytes_out > 0
    /\ out.status_lines = 1 /\ out.status_bytes = num_bytes_out

\* the length of the source: what was read and what is still to be read
SourceLen == num_bytes_in + src_remaining

\* a run in which no call failed and no read or write was short
CleanRun == event.ok /\ short_reads = 0 /\ short_writes = 0

\* ceil(len / bs) for the requested block size bs, 4096 when it is not
\* given; a block size of 2^32 or more exceeds every length modelled
BlocksOf(len, bs) ==
    IF bs.hi > 0 THEN (IF len > 0 THEN 1 ELSE 0)
    ELSE LET b == IF bs.lo = 0 THEN BUFFER_SIZE ELSE bs.lo
         IN  (len + b - 1) \div b

\* min(len, n * bs) for the requested block size bs
BytesOf(len, n, bs) ==
    IF bs.hi > 0 THEN (IF n = 0 THEN 0 ELSE len)
    ELSE LET b == IF bs.lo = 0 THEN BUFFER_SIZE ELSE bs.lo
         IN  Min(len, n * b)

\* C13: for a regular-file destination, a source of L bytes, block size B
\* (the requested bs, or 4096 when it is not given), an optional limit N,
\* full-size reads and writes and no errors, the run ends with exit code 0,
\* num_blocks_copied = min(N, ceil(L / B)) and num_bytes_out = min(L, N * B)
\* (N unbounded when absent).
C13_FileCopyTotals ==
    (Exited /\ dest_sector_size = 0 /\ started_copying /\ CleanRun) =>
        /\ out.exit_code = EXIT_SUCCESS
        /\ num_blocks_copied =
            IF options.count = NoCount
            THEN BlocksOf(SourceLen, options.block_size)
            ELSE Min(options.count, BlocksOf(SourceLen, options.block_size))
        /\ num_bytes_out =
            IF options.count = NoCount
            THEN SourceLen
            ELSE BytesOf(SourceLen, options.count, options.block_size)

\* the largest multiple of sector_size not above the requested block size
\* bs, 4096 standing for a block size that is not given, and one sector for
\* a block size below one sector; 2^32 is a multiple of every sector size
\* modelled
RoundedToSectors(bs, sector_size) ==
    IF ~SizePositive(bs)
    THEN [hi |-> 0, lo |-> (BUFFER_SIZE \div sector_size) * sector_size]
    ELSE IF SizeLessThan(bs, sector_size)
    THEN [hi |-> 0, lo |-> sector_size]
    ELSE [hi |-> bs.hi, lo |-> (bs.lo \div sector_size) * sector_size]

\* C14: for a destination device with sector size S the buffer size is the
\* requested block size, or 4096 when none is given, rounded down to a
\* multiple of S, and exactly S for a requested size below S.
C14_DeviceBufferFromRequestedSize ==
    (out_file_is_device /\ pc = "alloc") =>
        LET want == RoundedToSectors(options.block_size, dest_sector_size)
        IN  want.hi = 0 /\ buffer_size = want.lo

\* C15: for a regular-file destination the buffer size is the requested
\* block size itself for every requested size above 0, sizes of 2^32 and
\* more included, and 4096 when none is given.
C15_FileBufferIsRequestedSize ==
    (~out_file_is_device /\ pc = "alloc") =>
        IF SizePositive(options.block_size)
        THEN options.block_size.hi = 0
                /\ buffer_size = options.block_size.lo
        ELSE buffer_size = BUFFER_SIZE

\* C16: once copying has started (a read may be issued) the buffer size is
\* at least 1, for every requested block size, destination kind and sector
\* size.
C16_BufferSizePositiveOnceStarted ==
    started_copying => buffer_size >= 1 /\ buffer # "NULL"

\* copying to a device whose sector is larger than the default buffer
C16_Witness ==
    /\ started_copying
    /\ pc = "read"
    /\ out_file_is_device
    /\ dest_sector_size > BUFFER_SIZE
    /\ buffer_size = dest_sector_size

\* v tenths is a nearest tenth of n / div: |v / 10 - n / div| <= 1 / 20,
\* compared on the remainder of n by div, in units of 1024 for div = GB
NearestTenth(v, n, div) ==
    LET sc == IF div > MB THEN KB ELSE 1
        d2 == div \div sc
        rem == n % div
        t == v - (n \div div) * 10
        lo == (rem \div sc) * 10 + ((rem % sc) * 10) \div sc
        hi == IF ((rem % sc) * 10) % sc = 0 THEN lo ELSE lo + 1
    IN  /\ t \in 0 .. 10
        /\ 2 * t * d2 - d2 <= 2 * lo
        /\ 2 * hi <= 2 * t * d2 + d2

\* C17: format_size renders n < 1024 as the integer n with unit bytes, n in
\* [2^10, 2^20) as n / 2^10 to one decimal with unit KB, n in [2^20, 2^30)
\* as n / 2^20 with unit MB and n >= 2^30 as n / 2^30 with unit GB; 1024
\* gives "1.0 KB", 1048576 "1.0 MB" and 1073741824 "1.0 GB".
C17_FormatSizeUnits ==
    (Exited /\ out.status_lines = 1) =>
        LET n == out.status_bytes
            str == out.bytes_str
        IN  /\ n < 1024 =>
                str = [value |-> n, decimals |-> 0, unit |-> "bytes"]
            /\ (1024 <= n /\ n < 1048576) =>
                /\ str.unit = "KB" /\ str.decimals = 1
                /\ NearestTenth(str.value, n, 1024)
            /\ (1048576 <= n /\ n < 1073741824) =>
                /\ str.unit = "MB" /\ str.decimals = 1
                /\ NearestTenth(str.value, n, 1048576)
            /\ 1073741824 <= n =>
                /\ str.unit = "GB" /\ str.decimals = 1
                /\ NearestTenth(str.value, n, 1073741824)
            /\ n \in {1024, 1048576, 1073741824} => str.value = 10

\* "1.0 GB" for 2^30 bytes
C17_Witness ==
    /\ Exited
    /\ out.status_bytes = 1073741824
    /\ out.bytes_str = [value |-> 10, decimals |-> 1, unit |-> "GB"]

\* C18: in every state num_bytes_in - num_bytes_out is at most the buffer
\* size, for successful reads and writes, writes that report fewer bytes
\* than requested included.
C18_LagAtMostOneBlock ==
    started_copying => num_bytes_in - num_bytes_out <= buffer_size

\* C19: every write directly follows a successful read of k > 0 bytes and
\* requests exactly k bytes; a read never directly follows a read; the
\* clock is sampled and progress is printed only at the top of an
\* iteration, never between a read and its write.
C19_ReadsAndWritesAlternate ==
    /\ [][sys'.writes # sys.writes =>
            /\ sys'.writes = sys.writes + 1
            /\ pc = "write"
            /\ ReadEvent /\ event.ok /\ event.k > 0
            /\ sys'.write_len = event.k
            /\ sys'.reads = sys.reads]_vars
    /\ [][sys'.reads # sys.reads =>
            /\ sys'.reads = sys.reads + 1
            /\ pc = "read"
            /\ ~ReadEvent
            /\ sys.reads = sys.writes
            /\ sys'.writes = sys.writes]_vars
    /\ [][(clock' # clock \/ last_time' # last_time
              \/ out'.progress_lines # out.progress_lines) =>
            /\ pc = "loop" /\ pc' = "read"
            /\ sys.reads = sys.writes
            /\ sys' = sys]_vars
    /\ [](pc = "write" => sys.reads = sys.writes + 1)

\* two blocks copied, the second after a progress line
C19_Witness ==
    /\ pc = "loop"
    /\ sys.reads = 2 /\ sys.writes = 2
    /\ sys.write_len > 0
    /\ out.progress_lines = 1

\* C20: with progress enabled the first iteration records the clock sample
\* as the baseline and prints nothing; a later iteration prints a progress
\* line exactly when its sample is at least 1,000,000 microseconds past the
\* baseline, and then makes the sample the baseline and num_bytes_out the
\* bytes-at-last-sample, so that the delta printed is the bytes written
\* since the line before; with progress disabled no line is printed in the
\* loop.
C20_ProgressCadence ==
    /\ [](~options.status_progress =>
            out.progress_lines = 0 /\ last_time = 0)
    /\ [](out.progress_lines = 0 => last_bytes_copied = 0)
    /\ [][(pc = "loop" /\ pc' = "read" /\ options.status_progress) =>
            IF sys.reads = 0
            THEN /\ last_time' = clock'
                 /\ out' = out
                 /\ last_bytes_copied' = last_bytes_copied
            ELSE IF clock' - last_time >= 1000000
            THEN /\ out'.progress_lines = out.progress_lines + 1
                 /\ out'.progress_delta = num_bytes_out - last_bytes_copied
                 /\ last_time' = clock'
                 /\ last_bytes_copied' = num_bytes_out
            ELSE /\ out' = out
                 /\ last_time' = last_time
                 /\ last_bytes_copied' = last_bytes_copied]_vars
    /\ [][out'.progress_lines # out.progress_lines =>
            pc = "loop" /\ options.status_progress]_vars

\* a second progress line, printed exactly one interval after the first
C20_Witness ==
    /\ pc = "read"
    /\ options.status_progress
    /\ out.progress_lines = 2
    /\ out.progress_delta > 0
    /\ last_bytes_copied = num_bytes_out
    /\ clock_step = UPDATE_INTERVAL

\* the four ways a run can end, read off the exit status and the last
\* system call of main()
LimitReached ==
    /\ out.exit_code = EXIT_SUCCESS
    /\ CountReached(num_blocks_copied, options.count)
SourceExhausted == out.exit_code = EXIT_SUCCESS /\ ZeroRead
BadSectorEnd == out.exit_code = EXIT_SUCCESS /\ BadSectorRead
FatalError == out.exit_code = EXIT_FAILURE /\ out.error_msgs = 1
EndingsThatApply ==
    Cardinality({i \in 1 .. 4 :
        \/ i = 1 /\ LimitReached
        \/ i = 2 /\ SourceExhausted
        \/ i = 3 /\ BadSectorEnd
        \/ i = 4 /\ FatalError})

\* the last call of a run is exit, made after one cleanup
ExitAfterTeardown ==
    /\ sys.cleanup_runs = 1
    /\ Len(sys.log) >= 2
    /\ sys.log[Len(sys.log)] = "exit"
    /\ \E i \in 1 .. Len(sys.log) - 1 : sys.log[i] = "VirtualFree"

\* C21, termination: under FairSpec every run reaches exit, the source
\* being finite; with count=N the loop body is entered at most N times.
C21_LoopTerminates ==
    /\ <>Exited
    /\ [](options.count # NoCount =>
            sys.reads <= options.count /\ sys.writes <= options.count)

\* C21: every run that has ended ended by exactly one of limit reached,
\* source exhausted (a successful read of zero bytes), bad-sector read or
\* fatal error, and exit came after teardown.
C21_EndsByOneOfFour ==
    Exited => (EndingsThatApply = 1 /\ ExitAfterTeardown)

\* C21 apart from the read that fails with another error and reports zero
\* bytes (C6): every other run ends by exactly one of the four
C21_EndsByOneOfFourButC6 ==
    (Exited /\ ~(OtherFailedRead /\ event.k = 0)) =>
        (EndingsThatApply = 1 /\ ExitAfterTeardown)

\* the positions of a call in sys.log
Calls(c) == {i \in 1 .. Len(sys.log) : sys.log[i] = c}

\* C22: in the order of the calls made, no ReadFile or WriteFile comes after
\* the VirtualFree that begins teardown; the unlock request comes after
\* every WriteFile and before CloseHandle of the destination; and exit is
\* the last call, made only when the run has ended, after VirtualFree, after
\* the unlock request for a device and after CloseHandle of each handle that
\* was opened, on the normal path and on the failure path alike.
C22_TeardownOrdering ==
    /\ \A f \in Calls("VirtualFree") :
        \A i \in Calls("ReadFile") \cup Calls("WriteFile") : i < f
    /\ \A u \in Calls("FSCTL_UNLOCK_VOLUME") :
        /\ \A w \in Calls("WriteFile") : w < u
        /\ \A c \in Calls("CloseHandle(out_file)") : u < c
    /\ Exited <=> Calls("exit") # {}
    /\ \A e \in Calls("exit") :
        /\ e = Len(sys.log)
        /\ \E f \in Calls("VirtualFree") : f < e
        /\ out_file_is_device =>
            \E u \in Calls("FSCTL_UNLOCK_VOLUME") : u < e
        /\ in_file = "OPEN" =>
            \E c \in Calls("CloseHandle(in_file)") : c < e
        /\ out_file = "OPEN" =>
            \E c \in Calls("CloseHandle(out_file)") : c < e
        /\ buffer # "ALLOCATED"

\* a write to a device fails after a block was written: writes, unlock,
\* close and exit are all in the log
C22_Witness ==
    /\ Exited
    /\ FailedWrite
    /\ out_file_is_device
    /\ num_blocks_copied > 0
    /\ Calls("WriteFile") # {}
    /\ Calls("FSCTL_UNLOCK_VOLUME") # {}
    /\ Calls("CloseHandle(out_file)") # {}
    /\ out.exit_code = EXIT_FAILURE

\* the same on the normal path, the limit being reached
C22_WitnessNormalPath ==
    /\ Exited
    /\ LimitReached
    /\ out_file_is_device
    /\ Calls("WriteFile") # {}
    /\ Calls("FSCTL_UNLOCK_VOLUME") # {}
    /\ Calls("CloseHandle(out_file)") # {}

\* C23: a read that fails with "sector not found" and reports k > 0 bytes
\* changes none of the three counters and is followed by no write: every
\* step that ends with that read as the last call of main(), the read
\* itself and the exit after it, leaves num_bytes_in, num_bytes_out,
\* num_blocks_copied and the number of writes as they were, and the final
\* status reports the bytes written before the read.
C23_BadSectorBytesDiscarded ==
    [][(BadSectorRead' /\ event'.k > 0) =>
            /\ UNCHANGED countVars
            /\ sys'.writes = sys.writes
            /\ Exited' => out'.status_bytes = num_bytes_out]_vars

\* a block is copied, then the second read fails with "sector not found"
\* and reports one byte; the run has ended with the counters of that block
C23_Witness ==
    /\ Exited
    /\ BadSectorRead
    /\ event.k > 0
    /\ num_blocks_copied = 1
    /\ sys.reads = 2 /\ sys.writes = 1
    /\ num_bytes_in = num_bytes_out
    /\ num_bytes_in > 0

\* blocks read and not yet written: the block between ReadFile and
\* WriteFile, and the block whose WriteFile failed
InFlight == IF pc = "write" \/ (Exited /\ FailedWrite) THEN 1 ELSE 0

\* C24: in every state, the top of each loop iteration and exit included,
\* num_blocks_copied is the number of WriteFile calls that succeeded and
\* num_bytes_in is at most num_blocks_copied * buffer_size, plus one
\* buffer_size for a block in flight; and no step decreases num_bytes_in,
\* num_bytes_out or num_blocks_copied.
C24_CounterConsistency ==
    /\ [](/\ num_blocks_copied = sys.writes_ok
          /\ num_bytes_in <= (num_blocks_copied + InFlight) * buffer_size)
    /\ [][/\ num_bytes_in' >= num_bytes_in
          /\ num_bytes_out' >= num_bytes_out
          /\ num_blocks_copied' >= num_blocks_copied]_vars

\* two whole blocks copied and the loop at its top again, the last block
\* shorter than the one before
C24_Witness ==
    /\ pc = "loop"
    /\ num_blocks_copied = 2
    /\ sys.writes_ok = 2
    /\ num_bytes_in = 2 * buffer_size
    /\ num_bytes_out < num_bytes_in

\* a write fails with a block in flight: num_bytes_in has the block,
\* num_blocks_copied has not
C24_WitnessInFlight ==
    /\ Exited
    /\ FailedWrite
    /\ num_blocks_copied >= 1
    /\ num_bytes_in > num_blocks_copied * buffer_size

====
